---- MODULE Spec2Model ----
(***************************************************************************)
(* A model of Split/split_video.py: get_video_duration (the ffprobe        *)
(* duration probe) and split_video (the plan and the loop of ffmpeg        *)
(* stream-copy extractions), as called from the command line.              *)
(*                                                                         *)
(* Text is a sequence of one-character strings.  A Python float is a       *)
(* binary floating-point number with a significand of Precision bits,      *)
(* rounded to nearest, ties to even, held as a reduced fraction n/d; the   *)
(* exponent range is not bounded (no underflow, no overflow), and the two  *)
(* special values inf and nan are kept.  The sign of zero is not kept.     *)
(* The two external tools are present on the PATH: a tool run returns an   *)
(* exit status and its output, it does not fail to start.                  *)
(***************************************************************************)
EXTENDS Integers, Sequences, FiniteSets, TLC

(***************************************************************************)
(* Bounds of the model.                                                    *)
(***************************************************************************)
\* Largest split_count the command line passes.
MaxCount == 3
\* Significand width of the model's floats, in bits (53 in CPython).
Precision == 8
\* Longest generated ffprobe output, in characters.
MaxRawLen == 2
\* Longest generated input path, in characters.
MaxPathLen == 3

(***************************************************************************)
(* Text.                                                                   *)
(***************************************************************************)
Digits == <<"0", "1", "2", "3", "4", "5", "6", "7", "8", "9">>

IsDigit(c) == \E k \in 1..10 : Digits[k] = c

DigitVal(c) == (CHOOSE k \in 1..10 : Digits[k] = c) - 1

\* str.strip() with no argument removes leading and trailing whitespace.
IsSpace(c) == c \in {" ", "\n", "\t", "\r"}

RECURSIVE LStrip(_)
LStrip(s) ==
  IF s # <<>> /\ IsSpace(Head(s)) THEN LStrip(Tail(s)) ELSE s

RECURSIVE RStrip(_)
RStrip(s) ==
  IF s # <<>> /\ IsSpace(s[Len(s)]) THEN RStrip(SubSeq(s, 1, Len(s) - 1)) ELSE s

\* A faulty variant: no trimming at all.
StripNothing(s) == s

Strip(s) == RStrip(LStrip(s))

\* format(n, "d") of a non-negative integer, as an f-string renders it.
RECURSIVE ToDecimal(_)
ToDecimal(n) ==
  IF n < 10 THEN <<Digits[n + 1]>>
  ELSE ToDecimal(n \div 10) \o <<Digits[(n % 10) + 1]>>

\* All sequences over S of length at most n.
RECURSIVE SeqsUpTo(_, _)
SeqsUpTo(S, n) ==
  IF n = 0 THEN {<<>>}
  ELSE LET shorter == SeqsUpTo(S, n - 1)
       IN shorter \cup {Append(s, c) : s \in {t \in shorter : Len(t) = n - 1}, c \in S}

\* str.rfind of a single character: the last position holding c, 0 if none
\* (positions count from 1 here, from 0 in Python, where none is -1).
RFind(s, c) ==
  IF \E k \in 1..Len(s) : s[k] = c
  THEN CHOOSE k \in 1..Len(s) : s[k] = c /\ \A j \in (k + 1)..Len(s) : s[j] # c
  ELSE 0

\* A faulty variant: split at the first dot of the path.
SplitAtFirstDot(p) ==
  IF \E k \in 1..Len(p) : p[k] = "."
  THEN LET k == CHOOSE j \in 1..Len(p) : p[j] = "." /\ \A h \in 1..(j - 1) : p[h] # "."
       IN <<SubSeq(p, 1, k - 1), SubSeq(p, k, Len(p))>>
  ELSE <<p, <<>>>>

\* os.path.splitext on a POSIX path: the extension starts at the last dot of
\* the last path component, unless that component has only dots before it.
SplitExt(p) ==
  LET sepIndex == RFind(p, "/")
      dotIndex == RFind(p, ".")
  IN IF dotIndex > sepIndex
        /\ \E k \in (sepIndex + 1)..(dotIndex - 1) : p[k] # "."
     THEN <<SubSeq(p, 1, dotIndex - 1), SubSeq(p, dotIndex, Len(p))>>
     ELSE <<p, <<>>>>

(***************************************************************************)
(* Floats.                                                                 *)
(***************************************************************************)
RECURSIVE GCD(_, _)
GCD(a, b) == IF b = 0 THEN a ELSE GCD(b, a % b)

Abs(x) == IF x < 0 THEN 0 - x ELSE x
Sign(x) == IF x < 0 THEN 0 - 1 ELSE IF x = 0 THEN 0 ELSE 1

RECURSIVE Pow2(_)
Pow2(k) == IF k = 0 THEN 1 ELSE 2 * Pow2(k - 1)

\* The fraction n/d (d > 0) in lowest terms.
Frac(n, d) ==
  LET g == GCD(Abs(n), d)
  IN [k |-> "fin", n |-> n \div g, d |-> d \div g]

Nan == [k |-> "nan", n |-> 0, d |-> 1]
Inf(sign) == [k |-> "inf", n |-> sign, d |-> 1]
NoFloat == [k |-> "none", n |-> 0, d |-> 1]
Zero == Frac(0, 1)

\* Exact arithmetic on finite values, used to state properties.
QAdd(a, b) == Frac(a.n * b.d + b.n * a.d, a.d * b.d)
QSub(a, b) == Frac(a.n * b.d - b.n * a.d, a.d * b.d)
QScale(j, a) == Frac(j * a.n, a.d)
QLess(a, b) == a.n * b.d < b.n * a.d
QLeq(a, b) == a.n * b.d <= b.n * a.d
QAbs(a) == Frac(Abs(a.n), a.d)

\* n/d >= 0 rounded to an integer, ties to even.
RoundHalfEven(n, d) ==
  LET q == n \div d
      r == n % d
  IN IF 2 * r < d THEN q
     ELSE IF 2 * r > d THEN q + 1
     ELSE IF q % 2 = 0 THEN q ELSE q + 1

RECURSIVE RoundUp(_, _, _)
RoundUp(n, d, s) ==
  IF n >= d * Pow2(Precision - 1) THEN Frac(RoundHalfEven(n, d), s)
  ELSE RoundUp(2 * n, d, 2 * s)

RECURSIVE RoundDown(_, _, _)
RoundDown(n, d, s) ==
  IF n < d * Pow2(Precision) THEN Frac(RoundHalfEven(n, d) * s, 1)
  ELSE RoundDown(n, 2 * d, 2 * s)

\* The float nearest to n/d (d > 0).
RoundQ(n, d) ==
  IF n = 0 THEN Zero
  ELSE LET g == GCD(Abs(n), d)
           a == Abs(n) \div g
           b == d \div g
           r == IF a >= b * Pow2(Precision) THEN RoundDown(a, b, 1)
                ELSE RoundUp(a, b, 1)
       IN Frac(Sign(n) * r.n, r.d)

\* float(j) of an int j.
IntToFloat(j) == RoundQ(j, 1)

\* a * b on floats.
FMul(a, b) ==
  IF a.k = "nan" \/ b.k = "nan" THEN Nan
  ELSE IF a.k = "inf" \/ b.k = "inf"
       THEN IF a.n = 0 \/ b.n = 0 THEN Nan ELSE Inf(Sign(a.n) * Sign(b.n))
       ELSE RoundQ(a.n * b.n, a.d * b.d)

\* a / b on floats, b not zero (Python raises ZeroDivisionError on zero).
FDiv(a, b) ==
  IF a.k = "nan" \/ b.k = "nan" THEN Nan
  ELSE IF a.k = "inf"
       THEN IF b.k = "inf" THEN Nan ELSE Inf(Sign(a.n) * Sign(b.n))
       ELSE IF b.k = "inf" THEN Zero
            ELSE RoundQ(Sign(b.n) * a.n * b.d, a.d * Abs(b.n))

(***************************************************************************)
(* float(text): the decimal grammar on the characters the model feeds it   *)
(* (sign, digits, one point, and the words inf and nan).                   *)
(***************************************************************************)
Unsigned(s) == IF s # <<>> /\ Head(s) \in {"+", "-"} THEN Tail(s) ELSE s
SignOf(s) == IF s # <<>> /\ Head(s) = "-" THEN 0 - 1 ELSE 1

IsDecimal(u) ==
  /\ \A k \in 1..Len(u) : IsDigit(u[k]) \/ u[k] = "."
  /\ Cardinality({k \in 1..Len(u) : u[k] = "."}) <= 1
  /\ \E k \in 1..Len(u) : IsDigit(u[k])

IsFloatText(s) ==
  LET u == Unsigned(Strip(s))
  IN u = <<"i", "n", "f">> \/ u = <<"n", "a", "n">> \/ IsDecimal(u)

\* The digits of u read as an integer, the point skipped.
RECURSIVE DigitsValue(_)
DigitsValue(u) ==
  IF u = <<>> THEN 0
  ELSE LET c == u[Len(u)]
           rest == DigitsValue(SubSeq(u, 1, Len(u) - 1))
       IN IF c = "." THEN rest ELSE 10 * rest + DigitVal(c)

RECURSIVE Pow10(_)
Pow10(k) == IF k = 0 THEN 1 ELSE 10 * Pow10(k - 1)

FractionDigits(u) ==
  IF \E k \in 1..Len(u) : u[k] = "." THEN Len(u) - RFind(u, ".") ELSE 0

ParseFloat(s) ==
  LET t == Strip(s)
      u == Unsigned(t)
  IN IF u = <<"i", "n", "f">> THEN Inf(SignOf(t))
     ELSE IF u = <<"n", "a", "n">> THEN Nan
     ELSE RoundQ(SignOf(t) * DigitsValue(u), Pow10(FractionDigits(u)))

(***************************************************************************)
(* The program's constants and the inputs of a run.                        *)
(***************************************************************************)
\* random.randint(1000, 9999)
RandLow == 1000
RandHigh == 9999

\* The values the model draws for rand_id: both ends of randint's range.
RandInt == {RandLow, RandHigh}

\* --split_count is any int (type=int, default 2); no check is made on it.
SplitCounts == (0 - 1)..MaxCount

\* What ffprobe may write to its standard output.
RawChars == {" ", "\n", "1", ".", "-", "x"}
RawOutputs ==
  SeqsUpTo(RawChars, MaxRawLen)
  \cup { <<"6", "0", "0", ".", "0", "0", "0", "0", "0", "0", "\n">>,
         <<"7", ".", "5", "\n">>,
         <<"0", ".", "1", "\n">>,
         <<"1", "0">>,
         <<"0">>,
         <<"i", "n", "f">>,
         <<"n", "a", "n">>,
         <<"N", "/", "A", "\n">> }

\* A few of them, for the runs that vary the input path.
FewOutputs ==
  { <<>>, <<"7", ".", "5", "\n">>, <<"N", "/", "A", "\n">> }

\* What ffprobe may write to its standard error.
ErrOutputs == { <<>>, <<"e", "r", "r", "\n">> }

\* Input paths.
PathChars == {"a", ".", "/"}
FewPaths ==
  { <<"a", ".", "m", "p", "4">>, <<"d", "/", "v", ".", "m", "k", "v">> }
ManyPaths ==
  (SeqsUpTo(PathChars, MaxPathLen) \ {<<>>})
  \cup FewPaths
  \cup { <<"a", "_", "1", "0", "0", "0", "_", "1", ".", "m", "p", "4">>,
         <<"a", ".", "_", "1", "0", "0", "0", "_", "1", ".", "m", "p", "4">>,
         <<"a", "_", "9", "9", "9", "9", "_", "2">>,
         <<"a", ".", "M", "P", "4">>,
         <<"a", ".", "b", "/", "c">>,
         <<"x", "/", ".", "h", ".", "m", "p", "4">> }

(***************************************************************************)
(* State.                                                                  *)
(***************************************************************************)
VARIABLES
  pc,                \* where the run is: start, probed, loop, running, done, raised
  input_file,        \* args.input_file
  split_count,       \* args.split_count
  probes,            \* number of ffprobe runs so far
  result,            \* get_video_duration: ffprobe's stdout and stderr
  error,             \* the exception that ended the run, if any
  duration,          \* split_video: duration
  segment_duration,  \* split_video: segment_duration
  base_name,         \* split_video: base_name
  ext,               \* split_video: ext
  rand_id,           \* split_video: rand_id
  draws,             \* number of random.randint calls so far
  i,                 \* split_video: the loop variable
  calls,             \* the ffmpeg runs so far, in order, with their arguments
  printed            \* the lines printed so far

vars ==
  <<pc, input_file, split_count, probes, result, error, duration,
    segment_duration, base_name, ext, rand_id, draws, i, calls, printed>>

NoResult == [stdout |-> <<>>, stderr |-> <<>>]
NoError == [type |-> "none", origin |-> "none", msg |-> <<>>]

InitWith(paths) ==
  /\ pc = "start"
  /\ input_file \in paths
  /\ split_count \in SplitCounts
  /\ probes = 0
  /\ result = NoResult
  /\ error = NoError
  /\ duration = NoFloat
  /\ segment_duration = NoFloat
  /\ base_name = <<>>
  /\ ext = <<>>
  /\ rand_id = 0
  /\ draws = 0
  /\ i = 0
  /\ calls = <<>>
  /\ printed = <<>>

Init == InitWith(FewPaths)

InitPaths == InitWith(ManyPaths)

(***************************************************************************)
(* get_video_duration.                                                     *)
(***************************************************************************)
\* raw_output = result.stdout.strip()
RawOutput(stdout) == Strip(stdout)

\* What get_video_duration does with ffprobe's output: the exception it
\* raises, or none.
ProbeError(res) ==
  IF RawOutput(res.stdout) = <<>>
  THEN [type |-> "ValueError", origin |-> "no_output", msg |-> Strip(res.stderr)]
  ELSE IF ~IsFloatText(RawOutput(res.stdout))
       THEN [type |-> "ValueError", origin |-> "float", msg |-> RawOutput(res.stdout)]
       ELSE NoError

\* split_video line 96: duration = get_video_duration(input_file).
\* ffprobe is run once and its exit status is not looked at.
GetVideoDuration(outputs) ==
  /\ pc = "start"
  /\ \E out \in outputs, err \in ErrOutputs :
       LET res == [stdout |-> out, stderr |-> err]
       IN /\ result' = res
          /\ probes' = probes + 1
          /\ error' = ProbeError(res)
          /\ IF ProbeError(res) = NoError
             THEN /\ duration' = ParseFloat(RawOutput(out))
                  /\ pc' = "probed"
             ELSE /\ duration' = duration
                  /\ pc' = "raised"
  /\ UNCHANGED <<input_file, split_count, segment_duration, base_name, ext,
                 rand_id, draws, i, calls, printed>>

(***************************************************************************)
(* split_video.                                                            *)
(***************************************************************************)
\* A faulty variant: floor division, duration // split_count.
FloorDuration(d, n) ==
  IF d.k = "fin" /\ d.n >= 0 /\ n > 0
  THEN RoundQ(d.n \div (d.d * n), 1)
  ELSE FDiv(d, IntToFloat(n))

\* segment_duration = duration / split_count
SegmentDuration(d, n) == FDiv(d, IntToFloat(n))

\* A faulty variant: the start of the following segment.
StartTimeNext(j, seg) == FMul(IntToFloat(j + 1), seg)

\* start_time = i * segment_duration
StartTime(j, seg) == FMul(IntToFloat(j), seg)

\* A faulty variant: the segment number left out of the name.
OutputFileNoNumber(base, rid, j) ==
  base \o <<"_">> \o ToDecimal(rid) \o <<".", "m", "p", "4">>

\* A faulty variant: the name of the input's base with the extension only.
OutputFileBare(base, rid, j) == base \o <<".", "m", "p", "4">>

\* output_file = f"{base_name}_{rand_id}_{i+1}.mp4"
OutputFile(base, rid, j) ==
  base \o <<"_">> \o ToDecimal(rid) \o <<"_">> \o ToDecimal(j + 1)
       \o <<".", "m", "p", "4">>

\* A faulty variant: one iteration too many.
MoreSegmentsInclusive(j, n) == j <= n

\* for i in range(split_count): whether the loop body runs for i = j.
MoreSegments(j, n) == j < n

\* A faulty variant: subprocess.run(..., check=True).
AfterRunChecked(rc) == IF rc = 0 THEN "loop" ELSE "raised"

\* subprocess.run([...]) with no check: the exit status is dropped.
AfterRun(rc) == "loop"

\* Exit statuses ffmpeg may return.
ExitCodes == {0, 1}

\* Lines 97-99: the division, the split of the path, the random draw.
Plan ==
  /\ pc = "probed"
  /\ IF split_count = 0
     THEN /\ pc' = "raised"
          /\ error' = [type |-> "ZeroDivisionError", origin |-> "division", msg |-> <<>>]
          /\ UNCHANGED <<segment_duration, base_name, ext, rand_id, draws>>
     ELSE /\ segment_duration' = SegmentDuration(duration, split_count)
          /\ base_name' = SplitExt(input_file)[1]
          /\ ext' = SplitExt(input_file)[2]
          /\ rand_id' \in RandInt
          /\ draws' = draws + 1
          /\ pc' = "loop"
          /\ error' = error
  /\ i' = 0
  /\ UNCHANGED <<input_file, split_count, probes, result, duration, calls, printed>>

\* Lines 101-109, up to the start of ffmpeg: the loop takes the next index,
\* prints the progress line, then starts ffmpeg with
\* -y -ss start_time -i input_file -t segment_duration -c copy output_file.
StartSegment ==
  /\ pc = "loop"
  /\ MoreSegments(i, split_count)
  /\ LET start_time == StartTime(i, segment_duration)
         output_file == OutputFile(base_name, rand_id, i)
     IN /\ printed' = Append(printed,
                        [kind |-> "segment", number |-> i + 1,
                         total |-> split_count, file |-> output_file, id |-> 0])
        /\ calls' = Append(calls,
                      [index |-> i, overwrite |-> TRUE, ss |-> start_time,
                       input |-> input_file, t |-> segment_duration,
                       codec |-> "copy", output |-> output_file,
                       state |-> "running", returncode |-> 0])
  /\ pc' = "running"
  /\ UNCHANGED <<input_file, split_count, probes, result, error, duration,
                 segment_duration, base_name, ext, rand_id, draws, i>>

\* Line 106 returns: ffmpeg has exited, with any status; the loop goes on.
EndSegment ==
  /\ pc = "running"
  /\ \E rc \in ExitCodes :
       /\ calls' = [calls EXCEPT ![Len(calls)].state = "exited",
                                 ![Len(calls)].returncode = rc]
       /\ pc' = AfterRun(rc)
       /\ error' = IF AfterRun(rc) = "raised"
                   THEN [type |-> "CalledProcessError", origin |-> "ffmpeg", msg |-> <<>>]
                   ELSE error
  /\ i' = i + 1
  /\ UNCHANGED <<input_file, split_count, probes, result, duration,
                 segment_duration, base_name, ext, rand_id, draws, printed>>

\* Line 111: the loop is over; the summary is printed and the run returns.
Finish ==
  /\ pc = "loop"
  /\ ~MoreSegments(i, split_count)
  /\ printed' = Append(printed,
                  [kind |-> "done", number |-> 0, total |-> split_count,
                   file |-> <<>>, id |-> rand_id])
  /\ pc' = "done"
  /\ UNCHANGED <<input_file, split_count, probes, result, error, duration,
                 segment_duration, base_name, ext, rand_id, draws, i, calls>>

Next ==
  \/ GetVideoDuration(RawOutputs)
  \/ Plan
  \/ StartSegment
  \/ EndSegment
  \/ Finish

NextPaths ==
  \/ GetVideoDuration(FewOutputs)
  \/ Plan
  \/ StartSegment
  \/ EndSegment
  \/ Finish

Spec == Init /\ [][Next]_vars

SpecPaths == InitPaths /\ [][NextPaths]_vars

(***************************************************************************)
(* Properties.                                                             *)
(***************************************************************************)
Mp4 == <<".", "m", "p", "4">>

Failed(c) == c.state = "exited" /\ c.returncode # 0

\* The run has a plan: the probe succeeded and split_count is not zero.
Planned == pc \in {"loop", "running", "done"}

\* C1: with a successful probe and a positive split_count n, ffmpeg is run
\* exactly n times, for the indices 0, 1, ..., n-1 in that order, each run
\* starting only after the one before it has exited (with any status), and
\* all of them after the one and only ffprobe run.
C1_SequentialExtraction ==
  /\ probes <= 1
  /\ calls # <<>> => probes = 1 /\ error = NoError /\ split_count > 0
  /\ \A k \in 1..Len(calls) : calls[k].index = k - 1
  /\ \A k \in 1..(Len(calls) - 1) : calls[k].state = "exited"
  /\ (calls # <<>> /\ calls[Len(calls)].state = "running") <=> pc = "running"
  /\ Planned /\ split_count > 0 => Len(calls) <= split_count
  /\ pc = "done" /\ split_count > 0 => Len(calls) = split_count

C1_Witness ==
  /\ pc = "done"
  /\ split_count = 3
  /\ Len(calls) = 3
  /\ calls[3].index = 2
  /\ Failed(calls[1])

\* C2: when ffprobe's trimmed output is empty the run ends with the
\* no-duration failure carrying ffprobe's (trimmed) stderr, when it is not
\* empty and not a number the run ends with float()'s failure; in both
\* cases ffmpeg is never run.
C2_ProbeFailureAborts ==
  probes > 0 =>
    LET out == result.stdout
        blank == \A k \in 1..Len(out) : out[k] \in {" ", "\n"}
    IN /\ blank =>
            /\ pc = "raised"
            /\ error.type = "ValueError"
            /\ error.origin = "no_output"
            /\ error.msg = Strip(result.stderr)
            /\ calls = <<>>
       /\ (~blank /\ \E k \in 1..Len(out) : out[k] \in {"x", "N", "/", "A"}) =>
            /\ pc = "raised"
            /\ error.type = "ValueError"
            /\ error.origin = "float"
            /\ calls = <<>>
       /\ (~blank /\ ~IsFloatText(out)) =>
            /\ pc = "raised"
            /\ error.origin = "float"
       /\ error.origin \in {"no_output", "float"} => pc = "raised" /\ calls = <<>>

C2_Witness ==
  /\ pc = "raised"
  /\ error.origin = "no_output"
  /\ result.stdout = <<" ", "\n">>
  /\ error.msg = <<"e", "r", "r">>
  /\ calls = <<>>

C4_FailureRaises ==
  \A k \in 1..Len(calls) :
    Failed(calls[k]) => pc = "raised" /\ error.type = "CalledProcessError"

\* C5: every ffmpeg run for index j is asked to seek to
\* j * (duration / split_count) and to read for duration / split_count,
\* in float arithmetic, with duration the value the one probe returned.
C5_SegmentWindow ==
  /\ Planned => duration = ParseFloat(result.stdout) /\ probes = 1
  /\ \A k \in 1..Len(calls) :
       LET per == FDiv(duration, IntToFloat(split_count))
       IN /\ calls[k].t = per
          /\ calls[k].ss = FMul(IntToFloat(calls[k].index), per)
          /\ calls[k].index = k - 1
          /\ calls[k].input = input_file
          /\ calls[k].codec = "copy"

C5_Witness ==
  /\ pc = "done"
  /\ duration = Frac(600, 1)
  /\ split_count = 3
  /\ Len(calls) = 3
  /\ calls[1].ss = Zero
  /\ calls[2].ss = Frac(200, 1)
  /\ calls[3].ss = Frac(400, 1)
  /\ \A k \in 1..3 : calls[k].t = Frac(200, 1)

PositiveFinite(d) == d.k = "fin" /\ d.n > 0

\* The run is over, for a positive split_count and a positive duration.
TilingCase == pc = "done" /\ split_count > 0 /\ PositiveFinite(duration)

Ulp(x) == Frac(x.n, x.d * Pow2(Precision))

IsAt(s, piece, at) ==
  /\ at >= 1
  /\ at + Len(piece) - 1 <= Len(s)
  /\ SubSeq(s, at, at + Len(piece) - 1) = piece

\* C7: rand_id is drawn once, in 1000..9999; every output path of the run
\* holds _<rand_id>_<segment number> right after the base name, with the
\* segment numbers 1, 2, ... in order, and no two output paths are equal.
C7_SharedRunId ==
  /\ draws <= 1
  /\ Planned => draws = 1 /\ rand_id >= 1000 /\ rand_id <= 9999
  /\ \A k \in 1..Len(calls) :
       LET tag == <<"_">> \o ToDecimal(rand_id) \o <<"_">> \o ToDecimal(k)
       IN /\ IsAt(calls[k].output, base_name, 1)
          /\ IsAt(calls[k].output, tag, Len(base_name) + 1)
          /\ Len(calls[k].output) = Len(base_name) + Len(tag) + 4
  /\ \A k, m \in 1..Len(calls) : k # m => calls[k].output # calls[m].output

C7_Witness ==
  /\ pc = "done"
  /\ Len(calls) = 3
  /\ rand_id = 9999
  /\ calls[3].output = <<"a", "_", "9", "9", "9", "9", "_", "3", ".", "m", "p", "4">>

\* base and e are path split at its extension: e is empty or is the last
\* dot of the last path component and what follows it, and that dot has a
\* character other than a dot before it in the component.
IsSplitAtExtension(path, base, e) ==
  /\ path = base \o e
  /\ \A k \in 1..Len(e) : e[k] # "/" /\ (k > 1 => e[k] # ".")
  /\ e # <<>> =>
       /\ e[1] = "."
       /\ base # <<>> /\ base[Len(base)] # "/"
       /\ \E k \in 1..Len(base) :
            base[k] # "." /\ \A j \in k..Len(base) : base[j] # "/"
  /\ e = <<>> =>
       \A k \in 1..Len(path) :
         (path[k] = "." /\ \A j \in k..Len(path) : path[j] # "/") =>
           \A j \in 1..(k - 1) :
             path[j] = "." \/ \E h \in j..k : path[h] = "/"

\* C8 as stated: every output path is base_name, _rand_id_, the segment
\* number and the extension of the input, whatever that extension is.
C8_KeepsExtension ==
  /\ Planned => IsSplitAtExtension(input_file, base_name, ext)
  /\ \A k \in 1..Len(calls) :
       calls[k].output =
         base_name \o <<"_">> \o ToDecimal(rand_id) \o <<"_">> \o ToDecimal(k) \o ext

\* C8 as amended: every output path is base_name, _rand_id_, the segment
\* number and .mp4, with base_name the input path less its extension; the
\* output has the extension of the input only when that is .mp4.
C8_Mp4Extension ==
  /\ Planned => IsSplitAtExtension(input_file, base_name, ext)
  /\ \A k \in 1..Len(calls) :
       /\ calls[k].output =
            base_name \o <<"_">> \o ToDecimal(rand_id) \o <<"_">> \o ToDecimal(k) \o Mp4
       /\ IsSplitAtExtension(calls[k].output,
            SubSeq(calls[k].output, 1, Len(calls[k].output) - 4), Mp4)
       /\ (ext = Mp4) <=>
            calls[k].output =
              base_name \o <<"_">> \o ToDecimal(rand_id) \o <<"_">> \o ToDecimal(k) \o ext

C8_Witness ==
  /\ input_file = <<"d", "/", "v", ".", "m", "k", "v">>
  /\ ext = <<".", "m", "k", "v">>
  /\ Len(calls) = 2
  /\ calls[2].output = <<"d", "/", "v", "_", "1", "0", "0", "0", "_", "2", ".", "m", "p", "4">>

\* C9: a split_count of zero or less is rejected before ffprobe is run, and
\* never ends in a division by zero.
C9_CountValidated ==
  split_count <= 0 =>
    /\ probes = 0
    /\ calls = <<>>
    /\ error.type # "ZeroDivisionError"
    /\ pc # "done"

\* C10: ffmpeg, run with -y, is never given the input path as its output
\* path, for any input path, rand_id and index.
C10_InputNotOverwritten ==
  \A k \in 1..Len(calls) :
    /\ calls[k].overwrite
    /\ calls[k].input = input_file
    /\ calls[k].output # input_file

C10_Witness ==
  /\ input_file = <<"a", "_", "1", "0", "0", "0", "_", "1", ".", "m", "p", "4">>
  /\ rand_id = 1000
  /\ Len(calls) >= 1
  /\ calls[1].state = "exited"
  /\ calls[1].output # input_file

====
